---- MODULE Spec2Model ----
(***************************************************************************)
(* Incremental indexing pipeline of the Docs Navigator: the page cache     *)
(* (CacheService / JSON Map), its lock table, the indexing entry points    *)
(* and DocumentationService.indexDocumentation / indexSource /             *)
(* fetchPageWithCache.                                                     *)
(*                                                                         *)
(* One action is one synchronous segment of a handler (the code between    *)
(* two awaits on network or embedding I/O); a SQLite statement or          *)
(* transaction is atomic.  Time is in whole seconds; Date.now() is         *)
(* now * 1000.                                                             *)
(***************************************************************************)
EXTENDS Integers, Sequences, FiniteSets, TLC

\* ---------------------------------------------------------------- universe
Procs == {"p1", "p2"}
NULL == "null"
None == <<>>
Some(x) == <<x>>

\* this.sources, in insertion order (two of the eight sources are modelled)
SourceIds == <<"k3s", "rke2">>
SourceArgs == {"all", "k3s"}
\* the documents the sitemap (or the fallback list) of a source names
SourceUrls == [k3s |-> <<"u1">>, rke2 |-> <<"u2">>]
\* a sitemap that names more documents than one batch takes
LongSitemap == <<"u1", "u2", "u3", "u4">>
Urls == {"u1", "u2", "u3", "u4"}
\* remote bodies; "" is the empty body of a 304 answer
Bodies == {"b1", "b2"}
NextBody == [b1 |-> "b2"]
ServerEtag == [b1 |-> "e1", b2 |-> "e2"]
ServerLastModified == [b1 |-> 100, b2 |-> 200]
\* sitemap <lastmod> values, as getTime() milliseconds; 0 is "no lastmod"
Lastmods == {0, 500, 3000}

\* ---------------------------------------------------------------- bounds
MaxRuns == 2
MaxTicks == 2
MaxRemoteChanges == 1
MaxEmbedCalls == 3
MaxSitemap == 52
\* the clock when the first process starts
StartTime == 1

\* ------------------------------------------------------ program constants
INDEX_LOCK_TIMEOUT == 1800
BATCH_SIZE == 3
EMBEDDING_RETRIES == 3
BACKOFF_BASE == 500
SUSE_URL_LIMIT == 50
URL_LIMIT == 30

VARIABLES
  now,           \* wall clock, seconds
  ticks,         \* number of clock advances so far
  useJsonCache,  \* USE_JSON_CACHE === 'true'
  locks,         \* rows of the SQLite table locks
  pages,         \* page records: pages["disk"] is the SQLite table pages (or the
                 \* JSON cache file), pages[p] the in-memory Map of process p
  htmlFiles,     \* files of HTML_CACHE_DIR: path -> body
  server,        \* the remote body of every URL
  remoteChanges, \* number of remote content changes so far
  pc,            \* position of every process
  run,           \* the indexing run of every process
  svc,           \* DocumentationService / CacheService / VectorService flags
  queue,         \* documentUrls not yet put in a batch
  task,          \* the resources of the batch in flight
  vectors,       \* the vector index: the text embedded and stored for every URL
  result,        \* what the entry point returned
  runsStarted,   \* number of runs started so far
  check,         \* the checkUrlForChanges call in progress and its result
  locksTable,    \* whether the table locks exists in the database
  emb,           \* one AIService: its embedding cache, its statistics and the
                 \* getOrCreateEmbedding calls in progress
  disc,          \* a discoverDocumentUrls call: its input and what it returned
  auto,          \* the automatic change detection of one ChangeDetectionService
  vq             \* one VectorService: its addDocument calls and the index updates

vars == <<now, ticks, useJsonCache, locks, pages, htmlFiles, server, remoteChanges,
          pc, run, svc, queue, task, vectors, result, runsStarted, check, locksTable,
          emb, disc, auto,
                 vq>>

\* the variables of the indexing runs: all but server, check, emb, disc, auto, vq
coreVars == <<now, ticks, useJsonCache, locks, pages, htmlFiles, remoteChanges,
              pc, run, svc, queue, task, vectors, result, runsStarted, locksTable>>

\* ------------------------------------------------------------------ time
DateNow == now * 1000
NowSec == DateNow \div 1000

\* ------------------------------------------------------------ page cache
\* JavaScript truthiness of a string field; a numeric field holds 0 for
\* null / undefined (0 is falsy as well), a flag holds FALSE for undefined
Truthy(v) == v \notin {NULL, ""}
OrNull(v) == IF Truthy(v) THEN v ELSE NULL

NewRecord(etag, lastModified, contentHash, htmlPath, lastChecked) ==
  [etag |-> etag, lastModified |-> lastModified, contentHash |-> contentHash,
   htmlPath |-> htmlPath, lastChecked |-> lastChecked, indexed |-> FALSE,
   source |-> NULL, last_checked |-> 0]

\* the row CacheService.set writes and CacheService.get reads back: the columns
\* of the table, falsy values as NULL, no last_checked property
SqliteRow(data) ==
  [etag |-> OrNull(data.etag), lastModified |-> data.lastModified,
   contentHash |-> OrNull(data.contentHash), htmlPath |-> OrNull(data.htmlPath),
   lastChecked |-> data.lastChecked, indexed |-> data.indexed,
   source |-> OrNull(data.source), last_checked |-> 0]

Store(p) == IF useJsonCache THEN p ELSE "disk"

\* this.pageCache.get(url): the record, or None
CacheGetIn(pg, p, url) ==
  IF url \in DOMAIN pg[Store(p)] THEN Some(pg[Store(p)][url]) ELSE None

CacheGet(p, url) == CacheGetIn(pages, p, url)

\* this.pageCache.set(url, data): the new value of pages
CacheSet(pg, p, url, data) ==
  LET row == IF useJsonCache THEN data ELSE SqliteRow(data)
      old == pg[Store(p)]
  IN  [pg EXCEPT ![Store(p)] =
         [u \in DOMAIN old \cup {url} |-> IF u = url THEN row ELSE old[u]]]

\* CacheService.get throws 'Cache not initialized'; a Map never throws
CacheReady(p) == useJsonCache \/ svc[p].initialized

\* ------------------------------------------------------------ lock table
LockName(source) == <<"index", source>>
LockId(p) == <<p, DateNow>>
NoLock == <<>>

\* acquireLock without the expiry test: an existing row is always taken over
AcquireLockIgnoringExpiry(tbl, p, lockName, timeoutSeconds) ==
  LET mine == [name |-> lockName, acquired_at |-> NowSec,
               acquired_by |-> LockId(p), expires_at |-> NowSec + timeoutSeconds]
  IN  [acquired |-> TRUE, lockId |-> LockId(p), expiresIn |-> 0,
       locks |-> {r \in tbl : r.name # lockName} \cup {mine}]

\* CacheService.acquireLock: the result and the new table
AcquireLock(tbl, p, lockName, timeoutSeconds) ==
  LET expiresAt == NowSec + timeoutSeconds
      acquiredBy == LockId(p)
      existing == {r \in tbl : r.name = lockName}
      mine == [name |-> lockName, acquired_at |-> NowSec,
               acquired_by |-> acquiredBy, expires_at |-> expiresAt]
  IN  IF existing # {}
      THEN LET existingLock == CHOOSE r \in existing : TRUE
           IN  IF existingLock.expires_at < NowSec
               THEN [acquired |-> TRUE, lockId |-> acquiredBy, expiresIn |-> 0,
                     locks |-> (tbl \ existing) \cup {mine}]
               ELSE [acquired |-> FALSE, lockId |-> NoLock,
                     expiresIn |-> existingLock.expires_at - NowSec,
                     locks |-> tbl]
      ELSE [acquired |-> TRUE, lockId |-> acquiredBy, expiresIn |-> 0,
            locks |-> tbl \cup {mine}]

\* a release that deletes the row of the name whoever acquired it
ReleaseLockByNameOnly(tbl, lockName, lockId) ==
  LET hit == {r \in tbl : r.name = lockName}
  IN  [released |-> hit # {}, locks |-> tbl \ hit]

\* CacheService.releaseLock: whether a row was deleted, and the new table
ReleaseLock(tbl, lockName, lockId) ==
  LET hit == {r \in tbl : r.name = lockName /\ r.acquired_by = lockId}
  IN  [released |-> hit # {}, locks |-> tbl \ hit]

\* a cleanup that also deletes the row expiring in the present second
CleanupIncludingPresentSecond(tbl) ==
  LET hit == {r \in tbl : r.expires_at <= NowSec}
  IN  [count |-> Cardinality(hit), locks |-> tbl \ hit]

\* CacheService.cleanupExpiredLocks: the number of rows deleted and the new table
CleanupExpiredLocks(tbl) ==
  LET hit == {r \in tbl : r.expires_at < NowSec}
  IN  [count |-> Cardinality(hit), locks |-> tbl \ hit]

\* ------------------------------------------------- DocumentationService
\* loadPageCache: the flags afterwards (a failed initialize is logged only)
LoadedSvc(p, initOk) ==
  IF svc[p].pageCacheLoaded THEN svc[p]
  ELSE [svc[p] EXCEPT !.pageCacheLoaded = TRUE,
                      !.initialized = (~useJsonCache /\ initOk)]

\* loadPageCache: the JSON file is read into the Map, the SQLite table is in place
LoadedPages(pg, p) ==
  IF svc[p].pageCacheLoaded \/ ~useJsonCache THEN pg
  ELSE [pg EXCEPT ![p] =
          [u \in DOMAIN pg[p] \cup DOMAIN pg["disk"] |->
             IF u \in DOMAIN pg["disk"] THEN pg["disk"][u] ELSE pg[p][u]]]

\* the sources an indexDocumentation(sourceId) call works through
SourcesOf(sourceId) ==
  IF sourceId = "all" THEN SourceIds
  ELSE IF sourceId \in DOMAIN SourceUrls THEN <<sourceId>> ELSE <<>>

Min(a, b) == IF a < b THEN a ELSE b

\* hashContent (sha256) and sanitizeFilename (md5) on the values of the model
HashContent(html) == IF html = "" THEN "h0" ELSE IF html = "b1" THEN "h1" ELSE "h2"
SanitizeFilename(url) ==
  CASE url = "u1" -> "f1" [] url = "u2" -> "f2" [] url = "u3" -> "f3" [] OTHER -> "f4"

\* discoverDocumentUrls: url and lastmod of every document, cut to the limit
DiscoverDocumentUrls(source, lm) ==
  LET found == [i \in 1..Len(SourceUrls[source]) |->
                  [url |-> SourceUrls[source][i], lastmod |-> lm[SourceUrls[source][i]]]]
      limit == IF source = "suse" THEN 50 ELSE 30
  IN  SubSeq(found, 1, Min(Len(found), limit))

\* discoverDocumentUrls on a sitemap that names the urls found, without lastmod
DiscoverFromSitemap(source, found) ==
  LET urlData == [i \in 1..Len(found) |-> [url |-> found[i], lastmod |-> 0]]
      limit == IF source = "suse" THEN 50 ELSE 30
  IN  SubSeq(urlData, 1, Min(Len(urlData), limit))

\* preFilterUrls keeps an item unless its lastmod is not after last_checked
KeepUrl(p, item) ==
  LET cached == CacheGet(p, item.url)
  IN  \/ cached = None
      \/ ~(item.lastmod # 0 /\ cached[1].last_checked # 0
           /\ item.lastmod <= cached[1].last_checked)

PreFilterUrls(p, urlData, forceRefresh) ==
  LET kept == IF forceRefresh THEN urlData ELSE SelectSeq(urlData, LAMBDA it : KeepUrl(p, it))
  IN  [i \in 1..Len(kept) |-> kept[i].url]

\* preFilterUrls reads the cache without loading it
PreFilterThrows(p, urlData, forceRefresh) ==
  ~forceRefresh /\ Len(urlData) > 0 /\ ~CacheReady(p)

\* the sitemap lastmod of url is strictly earlier than the lastChecked of the
\* record stored for it
LastmodOlder(url, lastmod) ==
  /\ lastmod # 0
  /\ url \in DOMAIN pages["disk"]
  /\ lastmod < pages["disk"][url].lastChecked

NoTasks == [u \in {} |-> 0]
\* a resource of a batch: its step, the record fetchPageWithCache read (cached),
\* the text handed on to the extraction, the record found when it started, the
\* answer axios.get got, the number of calls to the embedding provider, whether
\* one of them returned the embedding, and the delays slept between them (ms)
NewTask == [st |-> "start", cached |-> None, html |-> "", before |-> None,
            resp |-> None, calls |-> 0, hasEmbedding |-> FALSE, waits |-> <<>>]
SeqSet(s) == {s[i] : i \in 1..Len(s)}

\* a slice that takes one url more than the window
BatchOfOneMore(urls) == SubSeq(urls, 1, Min(Len(urls), BATCH_SIZE + 1))

\* the i-loop of indexSource takes the next BATCH_SIZE urls
BatchOf(urls) == SubSeq(urls, 1, Min(Len(urls), BATCH_SIZE))
RestOf(urls) == SubSeq(urls, Min(Len(urls), BATCH_SIZE) + 1, Len(urls))

\* no discoverDocumentUrls call under study
NoDiscovery == [st |-> "none", source |-> "", fetchOk |-> FALSE, sitemap |-> <<>>,
                out |-> <<>>]
\* a ChangeDetectionService after its constructor and the calls made on it:
\* isRunning, checkInterval (0 for null, else the number of the timer), the
\* interval timers armed, the number of setInterval calls, whether the initial
\* check of startAutoDetection is awaited, the startAutoDetection calls and the
\* check cycles so far, whether stopAutoDetection has returned with no
\* startAutoDetection called since, and the cycles started in that time
NoAuto == [isRunning |-> FALSE, checkInterval |-> 0, timers |-> {}, created |-> 0,
           initialCheck |-> FALSE, starts |-> 0, cycles |-> 0, stopped |-> FALSE,
           cyclesAfterStop |-> 0]

\* the texts embedded and the slots of concurrent getOrCreateEmbedding calls
Texts == {"t1", "t2"}
Callers == {"c1", "c2"}
NoCall == [st |-> "idle", text |-> "", attempt |-> 0, ret |-> 0]
\* a new AIService: the Map embeddingCache (0 for no entry, else the vector,
\* named by the number of the provider answer that produced it), cacheStats,
\* the calls made, the successful provider calls per text, the calls in progress
NewAIService == [cache |-> [t \in Texts |-> 0], hits |-> 0, misses |-> 0, started |-> 0,
                 answers |-> [t \in Texts |-> 0], call |-> [c \in Callers |-> NoCall]]

\* what a command printed or returned; for clear-locks the number of rows it
\* deleted and the names of the rows no live run was holding when it ran
NoResult == [kind |-> "none", success |-> FALSE, documentsIndexed |-> 0, expiresIn |-> 0,
             cleaned |-> 0, stale |-> {}]
NoRun == [entry |-> "none", sourceId |-> "none", force |-> FALSE, lockId |-> NoLock,
          sources |-> <<>>, indexed |-> 0, skipped |-> 0, total |-> 0, errors |-> 0,
          older |-> {}, solo |-> FALSE, runNo |-> 0, serverAtStart |-> <<>>,
          upToDate |-> FALSE, attempted |-> {}, embedded |-> {}, pending |-> {},
          storeFailed |-> FALSE, staleCleared |-> FALSE]
\* a checkUrlForChanges call: its step, the record it read, the headers of the
\* HEAD answer, the number of GET requests made, and the fields of its result
NoCheck == [st |-> "idle", cached |-> None, head |-> None, gets |-> 0,
            status |-> "none", changed |-> "none", method |-> "none",
            sourceCall |-> "none", totalChecked |-> 0]
\* a VectorService after its constructor: not initialized, no addDocument
\* called (phase is indexed by the calls in call order), no index update made
NewVectorService == [initialized |-> FALSE, phase |-> <<>>, log |-> <<>>]
NewSvc == [initialized |-> FALSE, pageCacheLoaded |-> FALSE, queueRejected |-> FALSE]

Init ==
  /\ now = StartTime
  /\ ticks = 0
  /\ useJsonCache \in BOOLEAN
  /\ locks = {}
  /\ pages = [k \in Procs \cup {"disk"} |-> [u \in {} |-> 0]]
  /\ htmlFiles = [f \in {} |-> 0]
  /\ server = [u \in Urls |-> "b1"]
  /\ remoteChanges = 0
  /\ pc = [p \in Procs |-> "idle"]
  /\ run = [p \in Procs |-> NoRun]
  /\ svc = [p \in Procs |-> NewSvc]
  /\ queue = [p \in Procs |-> <<>>]
  /\ task = [p \in Procs |-> NoTasks]
  /\ vectors = [u \in {} |-> 0]
  /\ result = [p \in Procs |-> NoResult]
  /\ runsStarted = 0
  /\ check = NoCheck
  /\ locksTable = FALSE
  /\ emb = NewAIService
  /\ disc = NoDiscovery
  /\ auto = NoAuto
  /\ vq = NewVectorService

\* p is inside docService.indexDocumentation
Running(p) == pc[p] \in {"discover", "batch", "delay", "saving"}

\* no process but p has been active since p's run started
Solo(p) ==
  /\ run[p].solo
  /\ runsStarted = run[p].runNo
  /\ \A q \in Procs \ {p} : pc[q] \in {"idle", "done"}

StartedRun(p, entry, sourceId, forceRefresh, lockId) ==
  [entry |-> entry, sourceId |-> sourceId, force |-> forceRefresh, lockId |-> lockId,
   sources |-> SourcesOf(sourceId), indexed |-> 0, skipped |-> 0, total |-> 0,
   errors |-> 0,
   \* what the run has observed, for the properties below: the discovered urls
   \* whose lastmod is older than their last check, whether the run started
   \* alone, the remote at its start, and whether earlier runs had left every
   \* document of the source indexed with the hash of its present remote body
   older |-> {},
   solo |-> \A q \in Procs \ {p} : pc[q] \in {"idle", "done"},
   runNo |-> runsStarted + 1, serverAtStart |-> server,
   upToDate |-> \A i \in 1..Len(SourcesOf(sourceId)) :
                  \A u \in SeqSet(SourceUrls[SourcesOf(sourceId)[i]]) :
                    /\ u \in DOMAIN pages["disk"]
                    /\ pages["disk"][u].indexed
                    /\ pages["disk"][u].contentHash = HashContent(server[u]),
   \* the urls handed to fetchDocumentation, those addDocument has stored, the
   \* urls of the source that indexSource kept and has not yet settled, and
   \* whether a store operation has thrown
   attempted |-> {}, embedded |-> {}, pending |-> {}, storeFailed |-> FALSE,
   \* whether clear-locks has run over a row of this run's lock name that no
   \* live run was holding, and no live run holds that lock now
   staleCleared |->
     /\ \E q \in Procs : /\ result[q].kind = "cleaned"
                         /\ LockName(sourceId) \in result[q].stale
     /\ ~ \E q \in Procs : /\ Running(q)
                           /\ run[q].lockId # NoLock
                           /\ run[q].sourceId = sourceId]

\* a refusal that is reported and then ignored: the run goes on without a lock
RefusedButGoingOn(p, sourceId, forceRefresh, lock) ==
  /\ pc' = [pc EXCEPT ![p] = "discover"]
  /\ run' = [run EXCEPT ![p] = StartedRun(p, "cli", sourceId, forceRefresh, NoLock)]
  /\ result' = [result EXCEPT ![p] =
                  [NoResult EXCEPT !.kind = "refused", !.expiresIn = lock.expiresIn]]
  /\ UNCHANGED locks

\* the CLI when acquireLock is refused: it reports the remaining time and
\* returns before docService.indexDocumentation
Refused(p, sourceId, forceRefresh, lock) ==
  /\ pc' = [pc EXCEPT ![p] = "done"]
  /\ run' = [run EXCEPT ![p] =
               [StartedRun(p, "cli", sourceId, forceRefresh, NoLock)
                  EXCEPT !.sources = <<>>]]
  /\ result' = [result EXCEPT ![p] =
                  [NoResult EXCEPT !.kind = "refused", !.expiresIn = lock.expiresIn]]
  /\ UNCHANGED locks

\* src/cli/index-docs.js indexDocumentation, up to the first await inside
\* docService.indexDocumentation
StartCli(p, sourceId, forceRefresh, initOk) ==
  /\ pc[p] = "idle"
  /\ runsStarted < MaxRuns
  /\ runsStarted' = runsStarted + 1
  /\ LET s == IF useJsonCache THEN svc[p] ELSE LoadedSvc(p, initOk)
         lock == AcquireLock(locks, p, LockName(sourceId), INDEX_LOCK_TIMEOUT)
     IN  /\ svc' = [svc EXCEPT ![p] = s]
         \* acquireLock creates the table locks if it is missing
         /\ locksTable' = (locksTable \/ (~useJsonCache /\ s.initialized))
         /\ IF useJsonCache
            THEN /\ pc' = [pc EXCEPT ![p] = "discover"]
                 /\ run' = [run EXCEPT ![p] =
                              StartedRun(p, "cli", sourceId, forceRefresh, NoLock)]
                 /\ UNCHANGED <<locks, result, vectors>>
            ELSE IF ~s.initialized
            THEN \* acquireLock throws 'Cache not initialized'
                 /\ pc' = [pc EXCEPT ![p] = "done"]
                 /\ run' = [run EXCEPT ![p] =
                              [StartedRun(p, "cli", sourceId, forceRefresh, NoLock)
                                 EXCEPT !.sources = <<>>]]
                 /\ result' = [result EXCEPT ![p] = [NoResult EXCEPT !.kind = "threw"]]
                 /\ UNCHANGED locks
            ELSE IF ~lock.acquired
            THEN Refused(p, sourceId, forceRefresh, lock)
            ELSE /\ pc' = [pc EXCEPT ![p] = "discover"]
                 /\ run' = [run EXCEPT ![p] =
                              StartedRun(p, "cli", sourceId, forceRefresh, lock.lockId)]
                 /\ locks' = lock.locks
                 /\ UNCHANGED result
  /\ UNCHANGED <<now, ticks, useJsonCache, pages, htmlFiles, server, remoteChanges,
                 queue, task, vectors, check, emb, disc, auto,
                 vq>>

\* the callers of docService.indexDocumentation that take no lock: the MCP tool,
\* POST /api/index, src/index-docs.js and src/index-multi.js
StartDirect(p, sourceId, forceRefresh) ==
  /\ pc[p] = "idle"
  /\ runsStarted < MaxRuns
  /\ runsStarted' = runsStarted + 1
  /\ pc' = [pc EXCEPT ![p] = "discover"]
  /\ run' = [run EXCEPT ![p] = StartedRun(p, "direct", sourceId, forceRefresh, NoLock)]
  /\ result' = [result EXCEPT ![p] = NoResult]
  /\ UNCHANGED <<now, ticks, useJsonCache, locks, pages, htmlFiles, server,
                 remoteChanges, svc, queue, task, vectors, check, locksTable, emb,
                 disc, auto,
                 vq>>

\* the for-loop of docService.indexDocumentation moves to the next source
NextSource(p, r) ==
  LET rest == Tail(r.sources)
  IN  /\ pc' = [pc EXCEPT ![p] = IF rest = <<>> THEN "saving" ELSE "discover"]
      /\ run' = [run EXCEPT ![p] = [r EXCEPT !.sources = rest, !.indexed = 0,
                                             !.skipped = 0, !.older = {}]]

\* indexSource from the urls discovered to the start of the first batch
IndexSourceStart(p, urlData) ==
  /\ pc[p] = "discover"
  /\ LET documentUrls == PreFilterUrls(p, urlData, run[p].force)
     IN  IF PreFilterThrows(p, urlData, run[p].force)
         THEN /\ NextSource(p, [run[p] EXCEPT !.errors = @ + 1])
              /\ UNCHANGED <<queue, task, vectors>>
         ELSE IF documentUrls = <<>>
         THEN /\ NextSource(p, run[p])
              /\ UNCHANGED <<queue, task, vectors>>
         ELSE /\ pc' = [pc EXCEPT ![p] = "batch"]
              /\ task' = [task EXCEPT ![p] =
                            [u \in SeqSet(BatchOf(documentUrls)) |-> NewTask]]
              /\ queue' = [queue EXCEPT ![p] = RestOf(documentUrls)]
              /\ run' = [run EXCEPT
                   ![p].older = {urlData[i].url : i \in {j \in 1..Len(urlData) :
                                   /\ urlData[j].url \in SeqSet(documentUrls)
                                   /\ LastmodOlder(urlData[j].url, urlData[j].lastmod)}},
                   ![p].pending = SeqSet(documentUrls)]
  /\ UNCHANGED <<now, ticks, useJsonCache, locks, pages, htmlFiles, server,
                 remoteChanges, svc, result, runsStarted, vectors, check, locksTable,
                 emb, disc, auto,
                 vq>>

\* indexSource from the sitemap answer on, for the documents of the source
Discover(p, lm) ==
  /\ pc[p] = "discover"
  /\ IndexSourceStart(p, DiscoverDocumentUrls(Head(run[p].sources), lm))

\* indexSource from the sitemap answer on, for a sitemap naming the urls found
DiscoverSitemap(p, found) ==
  /\ pc[p] = "discover"
  /\ IndexSourceStart(p, DiscoverFromSitemap(Head(run[p].sources), found))

\* ------------------------------------------------------------ the remote

\* the validators of a conditional request match the remote body
\* (If-None-Match decides when present, else If-Modified-Since)
NotModified(url, etag, lastModified) ==
  IF Truthy(etag) THEN etag = ServerEtag[server[url]]
  ELSE lastModified # 0 /\ ServerLastModified[server[url]] <= lastModified

\* the answers a request can get: a status, or a transport / HTTP error; a
\* server may answer 200 to a conditional request
HeadResponses(url, etag, lastModified) ==
  {"200", "error"} \cup (IF NotModified(url, etag, lastModified) THEN {"304"} ELSE {})

\* an answer axios.get can get: a status (or a transport / HTTP error), the body,
\* and the validators the server chose to send
GetResponse(url, status, sendEtag, sendLastModified) ==
  LET body == server[url]
  IN  IF status = "error"
      THEN [status |-> "error", data |-> "", etag |-> NULL, lastModified |-> 0]
      ELSE [status |-> status, data |-> IF status = "304" THEN "" ELSE body,
            etag |-> IF sendEtag THEN ServerEtag[body] ELSE NULL,
            lastModified |-> IF sendLastModified THEN ServerLastModified[body] ELSE 0]

\* loadHtmlFromCache: the file's text, or "" for null
LoadHtmlFromCache(filepath, readOk) ==
  IF readOk /\ filepath \in DOMAIN htmlFiles THEN htmlFiles[filepath] ELSE ""

\* the validators a request for url carries, from the cached record
ReqEtag(cached) == IF cached = None THEN NULL ELSE cached[1].etag
ReqLastModified(cached) == IF cached = None THEN 0 ELSE cached[1].lastModified

SetTask(p, url, t) == task' = [task EXCEPT ![p][url] = t]

\* shouldSkipDocument without the forceRefresh test
ShouldSkipIgnoringForce(pg, p, url, forceRefresh) ==
  LET cached == CacheGetIn(pg, p, url)
  IN  cached # None /\ cached[1].indexed /\ Truthy(cached[1].contentHash)

\* shouldSkipDocument
ShouldSkipDocument(pg, p, url, forceRefresh) ==
  LET cached == CacheGetIn(pg, p, url)
  IN  /\ ~forceRefresh
      /\ cached # None
      /\ cached[1].indexed /\ Truthy(cached[1].contentHash)

\* a batch task from its start to its first request: shouldSkipDocument, then
\* either the HEAD request or fetchPageWithCache up to axios.get
TaskStart(p, url, initOk) ==
  /\ pc[p] = "batch"
  /\ url \in DOMAIN task[p]
  /\ task[p][url].st = "start"
  /\ LET s == LoadedSvc(p, initOk)
         pg == LoadedPages(pages, p)
         ready == useJsonCache \/ s.initialized
         cached == CacheGetIn(pg, p, url)
         skip == ShouldSkipDocument(pg, p, url, run[p].force)
         withSource == [cached[1] EXCEPT !.source = Head(run[p].sources)]
     IN  /\ svc' = [svc EXCEPT ![p] = s]
         /\ run' = [run EXCEPT ![p].attempted =
                      IF run[p].force \/ (ready /\ ~skip) THEN @ \cup {url} ELSE @]
         /\ IF ~ready
            THEN \* pageCache.get throws: the task is rejected
                 /\ SetTask(p, url, [task[p][url] EXCEPT !.st = "failed"])
                 /\ pages' = pg
            ELSE IF skip
            THEN /\ SetTask(p, url, [task[p][url] EXCEPT !.st = "head", !.before = cached,
                       !.cached = IF Truthy(cached[1].source) THEN cached
                                  ELSE Some(withSource)])
                 /\ pages' = IF Truthy(cached[1].source) THEN pg
                             ELSE CacheSet(pg, p, url, withSource)
            ELSE /\ SetTask(p, url, [task[p][url] EXCEPT !.st = "get", !.cached = cached,
                                                         !.before = cached])
                 /\ pages' = pg
  /\ UNCHANGED <<now, ticks, useJsonCache, locks, htmlFiles, server, remoteChanges,
                 pc, queue, result, runsStarted, vectors, check, locksTable, emb,
                 disc, auto,
                 vq>>

\* the answer to the HEAD request of a document that looked skippable
TaskHead(p, url, status) ==
  /\ pc[p] = "batch"
  /\ url \in DOMAIN task[p]
  /\ task[p][url].st = "head"
  /\ status \in HeadResponses(url, ReqEtag(task[p][url].cached),
                              ReqLastModified(task[p][url].cached))
  /\ IF status = "304"
     THEN /\ SetTask(p, url, [task[p][url] EXCEPT !.st = "skipped"])
          /\ UNCHANGED run
     ELSE \* fetchDocumentation -> fetchPageWithCache reads the record again
          /\ SetTask(p, url, [task[p][url] EXCEPT !.st = "get",
                                                   !.cached = CacheGet(p, url)])
          /\ run' = [run EXCEPT ![p].attempted = @ \cup {url}]
  /\ UNCHANGED <<now, ticks, useJsonCache, locks, pages, htmlFiles, server,
                 remoteChanges, pc, svc, queue, result, runsStarted, vectors, check,
                 locksTable, emb, disc, auto,
                 vq>>

\* saveHtmlToCache: the path written, or NULL when writing fails
SaveHtmlToCache(url, writeOk) == IF writeOk THEN SanitizeFilename(url) ELSE NULL

\* the record fetchPageWithCache stores when the body hashes like the cached one
RefreshedRecord(cached, response) ==
  [cached EXCEPT !.lastChecked = DateNow,
                 !.etag = IF Truthy(response.etag) THEN response.etag ELSE cached.etag,
                 !.lastModified = IF response.lastModified # 0
                                  THEN response.lastModified ELSE cached.lastModified]

\* a record for new content that is stored as already indexed
FetchedRecordMarkedIndexed(response, contentHash, htmlPath) ==
  [NewRecord(response.etag, response.lastModified, contentHash, htmlPath, DateNow)
     EXCEPT !.indexed = TRUE]

\* the record fetchPageWithCache stores for new or changed content
FetchedRecord(response, contentHash, htmlPath) ==
  NewRecord(response.etag, response.lastModified, contentHash, htmlPath, DateNow)

\* fetchPageWithCache from the answer of axios.get on, then the extraction of
\* fetchDocumentation, up to the call of vectorService.addDocument
FetchPage(p, url, response, readOk, writeOk, extractOk) ==
     LET t == [task[p][url] EXCEPT !.resp = Some(response)]
         hasPath == t.cached # None /\ Truthy(t.cached[1].htmlPath)
         cachedHtml == IF hasPath THEN LoadHtmlFromCache(t.cached[1].htmlPath, readOk)
                       ELSE ""
         contentHash == HashContent(response.data)
         sameHash == hasPath /\ t.cached[1].contentHash = contentHash
         htmlPath == SaveHtmlToCache(url, writeOk)
         Embed(html) == SetTask(p, url, [t EXCEPT !.st = IF extractOk THEN "embed"
                                                         ELSE "failed",
                                                  !.html = html])
     IN  IF response.status = "error"
         THEN /\ IF cachedHtml # ""
                 THEN Embed(cachedHtml)
                 ELSE SetTask(p, url, [t EXCEPT !.st = "failed"])
              /\ UNCHANGED <<pages, htmlFiles, vectors>>
         ELSE IF response.status = "304" /\ cachedHtml # ""
         THEN /\ Embed(cachedHtml)
              /\ UNCHANGED <<pages, htmlFiles, vectors>>
         ELSE IF sameHash /\ cachedHtml # ""
         THEN /\ pages' = CacheSet(pages, p, url, RefreshedRecord(t.cached[1], response))
              /\ Embed(cachedHtml)
              /\ UNCHANGED htmlFiles
         ELSE /\ pages' = CacheSet(pages, p, url,
                                   FetchedRecord(response, contentHash, htmlPath))
              /\ htmlFiles' = IF writeOk
                              THEN [f \in DOMAIN htmlFiles \cup {htmlPath} |->
                                      IF f = htmlPath THEN response.data ELSE htmlFiles[f]]
                              ELSE htmlFiles
              /\ Embed(response.data)

TaskGet(p, url, status, sendEtag, sendLastModified, readOk, writeOk, extractOk) ==
  /\ pc[p] = "batch"
  /\ url \in DOMAIN task[p]
  /\ task[p][url].st = "get"
  /\ status \in HeadResponses(url, ReqEtag(task[p][url].cached),
                              ReqLastModified(task[p][url].cached))
  /\ FetchPage(p, url, GetResponse(url, status, sendEtag, sendLastModified),
               readOk, writeOk, extractOk)
  /\ UNCHANGED <<now, ticks, useJsonCache, locks, server, remoteChanges, pc, run, svc,
                 queue, result, runsStarted, vectors, check, locksTable, emb,
                 disc, auto,
                 vq>>

\* a commit that marks the record indexed and forgets its source
IndexedRecordWithoutSource(cached, sourceId) ==
  [cached EXCEPT !.indexed = TRUE, !.last_checked = DateNow]

\* the record indexSource stores once addDocument has succeeded
IndexedRecord(cached, sourceId) ==
  [cached EXCEPT !.indexed = TRUE, !.source = sourceId, !.last_checked = DateNow]

\* the outcome of vectorService.addDocument and what indexSource does with it;
\* updateQueue stays rejected once one addDocument has failed
TaskEmbed(p, url, embedOk) ==
  /\ pc[p] = "batch"
  /\ url \in DOMAIN task[p]
  /\ task[p][url].st = "embed"
  /\ LET cached == CacheGet(p, url)
     IN  IF embedOk /\ ~svc[p].queueRejected
         THEN /\ SetTask(p, url, [task[p][url] EXCEPT !.st = "indexed"])
              /\ vectors' = [u \in DOMAIN vectors \cup {url} |->
                               IF u = url THEN task[p][url].html ELSE vectors[u]]
              /\ pages' = IF cached = None THEN pages
                          ELSE CacheSet(pages, p, url,
                                        IndexedRecord(cached[1], Head(run[p].sources)))
              /\ run' = [run EXCEPT ![p].embedded = @ \cup {url}]
              /\ UNCHANGED svc
         ELSE /\ SetTask(p, url, [task[p][url] EXCEPT !.st = "failed"])
              /\ svc' = [svc EXCEPT ![p].queueRejected = TRUE]
              /\ UNCHANGED <<pages, vectors, run>>
  /\ UNCHANGED <<now, ticks, useJsonCache, locks, htmlFiles, server, remoteChanges,
                 pc, queue, result, runsStarted, check, locksTable, emb, disc, auto,
                 vq>>

\* a retry loop that gives up one attempt early
EmbeddingAttemptGivingUpEarly(t, ok) ==
  IF ok THEN [t EXCEPT !.calls = @ + 1, !.hasEmbedding = TRUE]
  ELSE IF t.calls + 1 < EMBEDDING_RETRIES - 1
       THEN [t EXCEPT !.calls = @ + 1, !.waits = Append(@, (2 ^ t.calls) * BACKOFF_BASE)]
  ELSE [t EXCEPT !.calls = @ + 1, !.st = "failed"]

\* one pass of the retry loop of getOrCreateEmbedding on a cache miss: the
\* provider is called; on success the embedding is returned, on failure the
\* loop sleeps and goes on, and after the last attempt it throws
EmbeddingAttempt(t, ok) ==
  IF ok THEN [t EXCEPT !.calls = @ + 1, !.hasEmbedding = TRUE]
  ELSE IF t.calls + 1 < EMBEDDING_RETRIES
       THEN [t EXCEPT !.calls = @ + 1, !.waits = Append(@, (2 ^ t.calls) * BACKOFF_BASE)]
  ELSE [t EXCEPT !.calls = @ + 1, !.st = "failed"]

\* addDocument calls the embedding provider for the document's text; the
\* callbacks chained on updateQueue run one after another
GetOrCreateEmbedding(p, url, ok) ==
  /\ pc[p] = "batch"
  /\ url \in DOMAIN task[p]
  /\ task[p][url].st = "embed"
  /\ ~task[p][url].hasEmbedding /\ ~svc[p].queueRejected
  /\ \A v \in DOMAIN task[p] \ {url} :
       ~(task[p][v].st = "embed" /\ task[p][v].calls > 0)
  /\ SetTask(p, url, EmbeddingAttempt(task[p][url], ok))
  /\ svc' = [svc EXCEPT ![p].queueRejected = EmbeddingAttempt(task[p][url], ok).st = "failed"]
  /\ UNCHANGED <<now, ticks, useJsonCache, locks, pages, htmlFiles, server,
                 remoteChanges, pc, run, queue, result, runsStarted, vectors, check,
                 locksTable, emb, disc, auto,
                 vq>>

\* the rest of addDocument and the commit, once the embedding is there
TaskEmbedWithEmbedding(p, url) ==
  /\ url \in DOMAIN task[p]
  /\ task[p][url].hasEmbedding
  /\ TaskEmbed(p, url, TRUE)

\* addDocument chains its callback on an updateQueue that an earlier
\* addDocument left rejected: the callback never runs and the call rejects
AddDocumentOnRejectedQueue(p, url) ==
  /\ svc[p].queueRejected
  /\ url \in DOMAIN task[p]
  /\ task[p][url].calls = 0
  /\ TaskEmbed(p, url, FALSE)

\* addDocument has stored the document, and the pageCache.get / pageCache.set
\* of the commit throws (a SQLite error): the task is rejected
TaskEmbedStoreFails(p, url) ==
  /\ pc[p] = "batch"
  /\ url \in DOMAIN task[p]
  /\ task[p][url].st = "embed"
  /\ ~useJsonCache /\ ~svc[p].queueRejected
  /\ SetTask(p, url, [task[p][url] EXCEPT !.st = "failed"])
  /\ vectors' = [u \in DOMAIN vectors \cup {url} |->
                   IF u = url THEN task[p][url].html ELSE vectors[u]]
  /\ run' = [run EXCEPT ![p].embedded = @ \cup {url}, ![p].storeFailed = TRUE]
  /\ UNCHANGED <<now, ticks, useJsonCache, locks, pages, htmlFiles, server,
                 remoteChanges, pc, svc, queue, result, runsStarted, check, locksTable,
                 emb, disc, auto,
                 vq>>

Settled(t) == t.st \in {"indexed", "skipped", "failed"}
Count(p, st) == Cardinality({u \in DOMAIN task[p] : task[p][u].st = st})

\* a batch loop that stops at the first batch with a rejected task
BatchSettleStoppingOnFailure(p) ==
  /\ pc[p] = "batch"
  /\ \A u \in DOMAIN task[p] : Settled(task[p][u])
  /\ LET r == [run[p] EXCEPT !.indexed = @ + Count(p, "indexed"),
                             !.skipped = @ + Count(p, "skipped"),
                             !.pending = @ \ DOMAIN task[p]]
     IN  IF queue[p] # <<>> /\ Count(p, "failed") = 0
         THEN /\ pc' = [pc EXCEPT ![p] = "delay"]
              /\ run' = [run EXCEPT ![p] = r]
         ELSE NextSource(p, [r EXCEPT !.total = @ + r.indexed])
  /\ task' = [task EXCEPT ![p] = NoTasks]
  /\ UNCHANGED <<now, ticks, useJsonCache, locks, pages, htmlFiles, server,
                 remoteChanges, svc, queue, result, runsStarted, vectors, check,
                 locksTable, emb, disc, auto,
                 vq>>

\* Promise.allSettled of a batch resolves: the results are counted, and either
\* the inter-batch delay starts or indexSource returns its count
BatchSettle(p) ==
  /\ pc[p] = "batch"
  /\ \A u \in DOMAIN task[p] : Settled(task[p][u])
  /\ LET r == [run[p] EXCEPT !.indexed = @ + Count(p, "indexed"),
                             !.skipped = @ + Count(p, "skipped"),
                             !.pending = @ \ DOMAIN task[p]]
     IN  IF queue[p] # <<>>
         THEN /\ pc' = [pc EXCEPT ![p] = "delay"]
              /\ run' = [run EXCEPT ![p] = r]
         ELSE NextSource(p, [r EXCEPT !.total = @ + r.indexed])
  /\ task' = [task EXCEPT ![p] = NoTasks]
  /\ UNCHANGED <<now, ticks, useJsonCache, locks, pages, htmlFiles, server,
                 remoteChanges, svc, queue, result, runsStarted, vectors, check,
                 locksTable, emb, disc, auto,
                 vq>>

\* the BATCH_DELAY timer fires and the next batch starts
BatchDelay(p) ==
  /\ pc[p] = "delay"
  /\ pc' = [pc EXCEPT ![p] = "batch"]
  /\ task' = [task EXCEPT ![p] = [u \in SeqSet(BatchOf(queue[p])) |-> NewTask]]
  /\ queue' = [queue EXCEPT ![p] = RestOf(queue[p])]
  /\ UNCHANGED <<now, ticks, useJsonCache, locks, pages, htmlFiles, server,
                 remoteChanges, run, svc, result, runsStarted, vectors, check,
                 locksTable, emb, disc, auto,
                 vq>>

\* savePageCache in legacy mode writes the Map to the JSON file
SavedPages(pg, p) == IF useJsonCache THEN [pg EXCEPT !["disk"] = pg[p]] ELSE pg

\* a release placed after the call instead of in a finally block
ReleaseUnlessThrew(tbl, r, threw) ==
  IF r.lockId # NoLock /\ ~threw
  THEN ReleaseLock(tbl, LockName(r.sourceId), r.lockId).locks
  ELSE tbl

\* the finally block of the CLI: the lock table after it
FinallyRelease(tbl, r, threw) ==
  IF r.lockId # NoLock THEN ReleaseLock(tbl, LockName(r.sourceId), r.lockId).locks
  ELSE tbl

\* the end of docService.indexDocumentation (savePageCache, the statistics, the
\* result) and of its caller: the CLI releases its lock in the finally block.
\* this.pageCache.size throws when the store is not initialized or fails.
Finish(p, sizeOk) ==
  /\ pc[p] = "saving"
  /\ LET threw == ~useJsonCache /\ (~svc[p].initialized \/ ~sizeOk)
         success == run[p].errors = 0
     IN  /\ pages' = IF threw THEN pages ELSE SavedPages(pages, p)
         /\ result' = [result EXCEPT ![p] =
              IF threw THEN [NoResult EXCEPT !.kind = "threw"]
              ELSE [NoResult EXCEPT !.kind = "returned", !.success = success,
                                    !.documentsIndexed = run[p].total]]
         /\ locks' = FinallyRelease(locks, run[p], threw)
  /\ pc' = [pc EXCEPT ![p] = "done"]
  /\ UNCHANGED <<now, ticks, useJsonCache, htmlFiles, server, remoteChanges, run, svc,
                 queue, task, vectors, runsStarted, check, locksTable, emb, disc, auto,
                 vq>>

\* the process ends; the next invocation is a new process with new services
Exit(p) ==
  /\ pc[p] = "done"
  /\ pc' = [pc EXCEPT ![p] = "idle"]
  /\ run' = [run EXCEPT ![p] = NoRun]
  /\ svc' = [svc EXCEPT ![p] = NewSvc]
  /\ result' = [result EXCEPT ![p] = NoResult]
  /\ pages' = [pages EXCEPT ![p] = [u \in {} |-> 0]]
  /\ UNCHANGED <<now, ticks, useJsonCache, locks, htmlFiles, server, remoteChanges,
                 queue, task, vectors, runsStarted, check, locksTable, emb, disc, auto,
                 vq>>

\* a signal ends the process in the middle of a run: the CLI installs no
\* handler, so nothing of the process runs any more, its finally block included
Kill(p) ==
  /\ Running(p)
  /\ run[p].entry = "cli"
  /\ pc' = [pc EXCEPT ![p] = "idle"]
  /\ run' = [run EXCEPT ![p] = NoRun]
  /\ svc' = [svc EXCEPT ![p] = NewSvc]
  /\ result' = [result EXCEPT ![p] = NoResult]
  /\ pages' = [pages EXCEPT ![p] = [u \in {} |-> 0]]
  /\ task' = [task EXCEPT ![p] = NoTasks]
  /\ queue' = [queue EXCEPT ![p] = <<>>]
  /\ UNCHANGED <<now, ticks, useJsonCache, locks, htmlFiles, server, remoteChanges,
                 vectors, runsStarted, check, locksTable, emb, disc, auto,
                 vq>>

\* the clear-locks command: initialize, then cleanupExpiredLocks, whose DELETE
\* throws when the table locks does not exist
ClearLocks(p) ==
  /\ pc[p] = "idle"
  /\ ~useJsonCache
  /\ pc' = [pc EXCEPT ![p] = "done"]
  /\ run' = [run EXCEPT ![p] = [NoRun EXCEPT !.entry = "clear-locks"]]
  /\ IF locksTable
     THEN /\ locks' = CleanupExpiredLocks(locks).locks
          /\ result' = [result EXCEPT ![p] =
               [NoResult EXCEPT !.kind = "cleaned",
                                !.cleaned = CleanupExpiredLocks(locks).count,
                                !.stale = {r.name : r \in
                                   {x \in locks : ~ \E q \in Procs :
                                      Running(q) /\ run[q].lockId = x.acquired_by}}]]
     ELSE /\ result' = [result EXCEPT ![p] = [NoResult EXCEPT !.kind = "threw"]]
          /\ UNCHANGED locks
  /\ UNCHANGED <<now, ticks, useJsonCache, pages, htmlFiles, server, remoteChanges,
                 svc, queue, task, vectors, runsStarted, check, locksTable, emb,
                 disc, auto,
                 vq>>

\* a server process (MCP server, web server) stays alive after a run and keeps
\* its services for the next request
Ready(p) ==
  /\ pc[p] = "done"
  /\ run[p].entry = "direct"
  /\ pc' = [pc EXCEPT ![p] = "idle"]
  /\ run' = [run EXCEPT ![p] = NoRun]
  /\ result' = [result EXCEPT ![p] = NoResult]
  /\ UNCHANGED <<now, ticks, useJsonCache, locks, pages, htmlFiles, server,
                 remoteChanges, svc, queue, task, vectors, runsStarted, check,
                 locksTable, emb, disc, auto,
                 vq>>

\* ------------------------------------------------------- the environment
\* the clock advances
Tick(d) ==
  /\ ticks < MaxTicks
  /\ ticks' = ticks + 1
  /\ now' = now + d
  /\ UNCHANGED <<useJsonCache, locks, pages, htmlFiles, server, remoteChanges, pc, run,
                 svc, queue, task, vectors, result, runsStarted, check, locksTable,
                 emb, disc, auto,
                 vq>>

\* the remote document changes
RemoteChange(url) ==
  /\ remoteChanges < MaxRemoteChanges
  /\ server[url] \in DOMAIN NextBody
  /\ remoteChanges' = remoteChanges + 1
  /\ server' = [server EXCEPT ![url] = NextBody[server[url]]]
  /\ UNCHANGED <<now, ticks, useJsonCache, locks, pages, htmlFiles, pc, run, svc,
                 queue, task, vectors, result, runsStarted, check, locksTable, emb,
                 disc, auto,
                 vq>>

Statuses == {"200", "304", "error"}

\* one process runs after another, on every cache, remote and I/O outcome; a
\* source names one document, so no batch is followed by a delay, and every
\* invocation is a new process
Next ==
  \/ \E s \in {"k3s"}, f \in BOOLEAN, ok \in BOOLEAN : StartCli("p1", s, f, ok)
  \/ \E s \in {"k3s"}, f \in BOOLEAN : StartDirect("p1", s, f)
  \/ \E lm \in [SeqSet(SourceUrls["k3s"]) -> Lastmods] : Discover("p1", lm)
  \/ \E u \in Urls, ok \in BOOLEAN : TaskStart("p1", u, ok)
  \/ \E u \in Urls, st \in Statuses : TaskHead("p1", u, st)
  \/ \E u \in Urls, st \in Statuses, e \in BOOLEAN, m \in BOOLEAN, readOk \in BOOLEAN,
        writeOk \in BOOLEAN, extractOk \in BOOLEAN :
       TaskGet("p1", u, st, e, m, readOk, writeOk, extractOk)
  \/ \E u \in Urls, ok \in BOOLEAN : TaskEmbed("p1", u, ok)
  \/ BatchSettle("p1")
  \/ \E ok \in BOOLEAN : Finish("p1", ok)
  \/ Exit("p1")
  \/ RemoteChange("u1")

Spec == Init /\ [][Next]_vars

\* two processes each start one run, at any time; the remote answers 200 with
\* both validators and no I/O fails but the store's size query
NextLocks ==
  \/ \E p \in Procs, s \in SourceArgs : StartCli(p, s, FALSE, TRUE)
  \/ \E p \in Procs, s \in SourceArgs : StartDirect(p, s, TRUE)
  \/ \E p \in Procs : Discover(p, [u \in Urls |-> 0])
  \/ \E p \in Procs, u \in Urls : TaskStart(p, u, TRUE)
  \/ \E p \in Procs, u \in Urls : TaskHead(p, u, "200")
  \/ \E p \in Procs, u \in Urls : TaskGet(p, u, "200", TRUE, TRUE, TRUE, TRUE, TRUE)
  \/ \E p \in Procs, u \in Urls : TaskEmbed(p, u, TRUE)
  \/ \E p \in Procs : BatchSettle(p)
  \/ \E p \in Procs, ok \in BOOLEAN : Finish(p, ok)
  \/ Tick(INDEX_LOCK_TIMEOUT)

InitLocks == Init /\ ~useJsonCache

SpecLocks == InitLocks /\ [][NextLocks]_vars

\* one CLI run on a sitemap of two batches; a request, the extraction, the
\* embedding or the store can fail for any document
NextBatch ==
  \/ StartCli("p1", "k3s", FALSE, TRUE)
  \/ DiscoverSitemap("p1", LongSitemap)
  \/ \E u \in Urls : TaskStart("p1", u, TRUE)
  \/ \E u \in Urls, st \in {"200", "error"}, extractOk \in BOOLEAN :
       TaskGet("p1", u, st, TRUE, TRUE, TRUE, TRUE, extractOk)
  \/ \E u \in Urls, ok \in BOOLEAN : TaskEmbed("p1", u, ok)
  \/ \E u \in Urls : TaskEmbedStoreFails("p1", u)
  \/ BatchSettle("p1")
  \/ BatchDelay("p1")
  \/ Finish("p1", TRUE)

SpecBatch == Init /\ [][NextBatch]_vars

\* CLI runs one after another in which only the embedding provider can fail
NextRetry ==
  \/ \E f \in BOOLEAN : StartCli("p1", "k3s", f, TRUE)
  \/ Discover("p1", [u \in Urls |-> 0])
  \/ \E u \in Urls : TaskStart("p1", u, TRUE)
  \/ \E u \in Urls, st \in {"200", "304"} : TaskHead("p1", u, st)
  \/ \E u \in Urls : TaskGet("p1", u, "200", TRUE, TRUE, TRUE, TRUE, TRUE)
  \/ \E u \in Urls, ok \in BOOLEAN : GetOrCreateEmbedding("p1", u, ok)
  \/ \E u \in Urls : TaskEmbedWithEmbedding("p1", u)
  \/ BatchSettle("p1")
  \/ Finish("p1", TRUE)
  \/ Exit("p1")
  \/ RemoteChange("u1")

SpecRetry == Init /\ [][NextRetry]_vars

\* one forced CLI run on a sitemap of two batches in which only the embedding
\* provider can fail
NextBackoff ==
  \/ StartCli("p1", "k3s", TRUE, TRUE)
  \/ DiscoverSitemap("p1", LongSitemap)
  \/ \E u \in Urls : TaskStart("p1", u, TRUE)
  \/ \E u \in Urls : TaskGet("p1", u, "200", TRUE, TRUE, TRUE, TRUE, TRUE)
  \/ \E u \in Urls, ok \in BOOLEAN : GetOrCreateEmbedding("p1", u, ok)
  \/ \E u \in Urls : TaskEmbedWithEmbedding("p1", u)
  \/ \E u \in Urls : AddDocumentOnRejectedQueue("p1", u)
  \/ BatchSettle("p1")
  \/ BatchDelay("p1")
  \/ Finish("p1", TRUE)

SpecBackoff == Init /\ [][NextBackoff]_vars

\* CLI runs of two processes on a SQLite cache that a signal can end at any
\* point, the clear-locks command, and the clock
NextCrash ==
  \/ \E p \in Procs : StartCli(p, "k3s", FALSE, TRUE)
  \/ \E p \in Procs : Discover(p, [u \in Urls |-> 0])
  \/ \E p \in Procs, u \in Urls : TaskStart(p, u, TRUE)
  \/ \E p \in Procs, u \in Urls : TaskHead(p, u, "200")
  \/ \E p \in Procs, u \in Urls : TaskGet(p, u, "200", TRUE, TRUE, TRUE, TRUE, TRUE)
  \/ \E p \in Procs, u \in Urls : TaskEmbed(p, u, TRUE)
  \/ \E p \in Procs : BatchSettle(p)
  \/ \E p \in Procs : Finish(p, TRUE)
  \/ \E p \in Procs : Exit(p)
  \/ \E p \in Procs : Kill(p)
  \/ \E p \in Procs : ClearLocks(p)
  \/ \E d \in {1, INDEX_LOCK_TIMEOUT} : Tick(d)

SpecCrash == InitLocks /\ [][NextCrash]_vars

\* ------------------------------------------------ discoverDocumentUrls
\* the sources of the discovery study and the length of their fallback lists
DiscoverySources == {"suse", "k3s", "rke2"}
FallbackCount == [suse |-> 2, k3s |-> 3, rke2 |-> 4]

\* getFallbackUrls: the static urls of a source
GetFallbackUrls(source) == [i \in 1..FallbackCount[source] |-> <<"fallback", i>>]

\* a sitemap of n <url> entries; with blogEvery = k > 0 every k-th entry is a
\* blog, archive, search, tags or authors page; entry i has a lastmod iff i is odd
SitemapOf(n, blogEvery) ==
  [i \in 1..n |->
     [loc |-> IF blogEvery > 0 /\ i % blogEvery = 0 THEN <<"blog", i>> ELSE <<"doc", i>>,
      lastmod |-> IF i % 2 = 1 THEN 500 ELSE 0]]

\* the filter of the sitemap entries
Acceptable(entry) == entry.loc[1] = "doc"

\* a discovery whose slice keeps one url more than the limit
DiscoverCuttingOneLate(source, fetchOk, sitemap) ==
  LET limit == IF source = "suse" THEN SUSE_URL_LIMIT ELSE URL_LIMIT
      kept == SelectSeq(sitemap, Acceptable)
      cut == SubSeq(kept, 1, Min(Len(kept), limit + 1))
      fallback == [i \in 1..Len(GetFallbackUrls(source)) |->
                     [url |-> GetFallbackUrls(source)[i], lastmod |-> 0]]
  IN  IF ~fetchOk \/ kept = <<>> THEN fallback
      ELSE [i \in 1..Len(cut) |-> [url |-> cut[i].loc, lastmod |-> cut[i].lastmod]]

\* discoverDocumentUrls on the answer of the sitemap request: the acceptable
\* entries, or the fallback urls with lastmod null when the request failed or
\* no entry is acceptable, cut to the limit of the source
DiscoverUrls(source, fetchOk, sitemap) ==
  LET limit == IF source = "suse" THEN SUSE_URL_LIMIT ELSE URL_LIMIT
      kept == SelectSeq(sitemap, Acceptable)
      fallback == [i \in 1..Len(GetFallbackUrls(source)) |->
                     [url |-> GetFallbackUrls(source)[i], lastmod |-> 0]]
      urlData == IF ~fetchOk \/ kept = <<>> THEN fallback
                 ELSE [i \in 1..Len(kept) |->
                         [url |-> kept[i].loc, lastmod |-> kept[i].lastmod]]
  IN  SubSeq(urlData, 1, Min(Len(urlData), limit))

\* the discovery inputs: a source, whether the sitemap request succeeds, and
\* the sitemap it answers with
InitDiscovery ==
  /\ now = StartTime /\ ticks = 0 /\ useJsonCache = FALSE
  /\ locks = {} /\ pages = [k \in Procs \cup {"disk"} |-> [u \in {} |-> 0]]
  /\ htmlFiles = [f \in {} |-> 0] /\ server = [u \in Urls |-> "b1"]
  /\ remoteChanges = 0 /\ pc = [p \in Procs |-> "idle"]
  /\ run = [p \in Procs |-> NoRun] /\ svc = [p \in Procs |-> NewSvc]
  /\ queue = [p \in Procs |-> <<>>] /\ task = [p \in Procs |-> NoTasks]
  /\ vectors = [u \in {} |-> 0] /\ result = [p \in Procs |-> NoResult]
  /\ runsStarted = 0 /\ check = NoCheck /\ locksTable = FALSE
  /\ emb = NewAIService /\ auto = NoAuto /\ vq = NewVectorService
  /\ \E source \in DiscoverySources, fetchOk \in BOOLEAN, n \in 0..MaxSitemap,
        blogEvery \in 0..2 :
       disc = [st |-> "called", source |-> source, fetchOk |-> fetchOk,
               sitemap |-> SitemapOf(n, blogEvery), out |-> <<>>]

\* discoverDocumentUrls returns
DiscoverReturn ==
  /\ disc.st = "called"
  /\ disc' = [disc EXCEPT !.st = "returned",
                          !.out = DiscoverUrls(disc.source, disc.fetchOk, disc.sitemap)]
  /\ UNCHANGED <<coreVars, server, check, emb, auto,
                 vq>>

NextDiscovery == DiscoverReturn

SpecDiscovery == InitDiscovery /\ [][NextDiscovery]_vars

\* ------------------------------------------------------------ AIService
\* the vector the provider answers with for a text
ProviderVector(t) == emb.answers[t] + 1

\* getOrCreateEmbedding up to its first provider call: a cache hit returns the
\* cached vector, a miss goes on to the retry loop
Lookup(e, c, t) ==
  IF e.cache[t] # 0
  THEN [e EXCEPT !.hits = @ + 1, !.started = @ + 1,
                 !.call[c] = [st |-> "returned", text |-> t, attempt |-> 0,
                              ret |-> e.cache[t]]]
  ELSE [e EXCEPT !.misses = @ + 1, !.started = @ + 1,
                 !.call[c] = [NoCall EXCEPT !.st = "calling", !.text = t]]

\* a caller calls getOrCreateEmbedding(text)
EmbedCall(c, t) ==
  /\ emb.call[c].st = "idle"
  /\ emb.started < MaxEmbedCalls
  /\ emb' = Lookup(emb, c, t)
  /\ UNCHANGED <<coreVars, server, check, disc, auto,
                 vq>>

\* the provider answers a call of the retry loop: a vector, which is put in
\* the cache and returned, or an error, after the third of which the call throws
EmbedAnswer(c, ok) ==
  /\ emb.call[c].st = "calling"
  /\ LET t == emb.call[c].text
         a == emb.call[c].attempt
     IN  emb' = IF ok
                THEN [emb EXCEPT !.cache[t] = ProviderVector(t),
                                 !.answers[t] = @ + 1,
                                 !.call[c].st = "returned",
                                 !.call[c].ret = ProviderVector(t)]
                ELSE IF a + 1 < EMBEDDING_RETRIES
                THEN [emb EXCEPT !.call[c].attempt = a + 1]
                ELSE [emb EXCEPT !.call[c].attempt = a + 1, !.call[c].st = "threw"]
  /\ UNCHANGED <<coreVars, server, check, disc, auto,
                 vq>>

\* the caller has its result and may call again
EmbedDone(c) ==
  /\ emb.call[c].st \in {"returned", "threw"}
  /\ emb' = [emb EXCEPT !.call[c] = NoCall]
  /\ UNCHANGED <<coreVars, server, check, disc, auto,
                 vq>>

\* calls of getOrCreateEmbedding on one AIService, by two concurrent callers
NextEmbed ==
  \/ \E c \in Callers, t \in Texts : EmbedCall(c, t)
  \/ \E c \in Callers, ok \in BOOLEAN : EmbedAnswer(c, ok)
  \/ \E c \in Callers : EmbedDone(c)

SpecEmbed == Init /\ [][NextEmbed]_vars

\* ------------------------------------------------ VectorService.updateQueue
\* the most addDocument calls made on the one VectorService
MaxAddCalls == 4

QueueSettled == {"done", "failed", "rejected"}

\* callbacks that do not wait for the calls before them
RunnableAtOnce(v, c) == TRUE

\* the callback of call c is chained on the promise of call c - 1: it is
\* looked at only when every earlier call has settled
Runnable(v, c) == \A d \in 1..(c - 1) : v.phase[d] \in QueueSettled

\* addDocument(doc) up to its await: the callback is chained on updateQueue
AddDocument ==
  /\ Len(vq.phase) < MaxAddCalls
  /\ vq' = [vq EXCEPT !.phase = Append(@, "queued")]
  /\ UNCHANGED <<coreVars, server, check, emb, disc, auto>>

\* the promise before call c has settled: rejected, it rejects call c without
\* running its callback; else the callback runs ensureInitialized, splits the
\* text and calls index.beginUpdate (startOk: none of these throws)
CallbackStart(c, startOk) ==
  /\ c \in 1..Len(vq.phase)
  /\ vq.phase[c] = "queued"
  /\ Runnable(vq, c)
  /\ vq' = IF c > 1 /\ vq.phase[c - 1] \in {"failed", "rejected"}
           THEN [vq EXCEPT !.phase[c] = "rejected"]
           ELSE IF startOk
           THEN [vq EXCEPT !.initialized = TRUE, !.phase[c] = "begun",
                           !.log = Append(@, <<"begin", c>>)]
           ELSE [vq EXCEPT !.phase[c] = "failed"]
  /\ UNCHANGED <<coreVars, server, check, emb, disc, auto>>

\* Promise.all over the embeddings of the chunks; when one rejects the catch
\* block calls index.endUpdate and throws again
CallbackEmbeddings(c, ok) ==
  /\ c \in 1..Len(vq.phase)
  /\ vq.phase[c] = "begun"
  /\ vq' = IF ok THEN [vq EXCEPT !.phase[c] = "embedded"]
           ELSE [vq EXCEPT !.phase[c] = "failed", !.log = Append(@, <<"end", c>>)]
  /\ UNCHANGED <<coreVars, server, check, emb, disc, auto>>

\* the insertItem loop and index.endUpdate; when an insert throws, or when
\* endUpdate itself throws, the catch block calls index.endUpdate and throws
CallbackInsert(c, ok, endOk) ==
  /\ c \in 1..Len(vq.phase)
  /\ vq.phase[c] = "embedded"
  /\ vq' = IF ok /\ endOk
           THEN [vq EXCEPT !.phase[c] = "done", !.log = Append(@, <<"end", c>>)]
           ELSE IF ok
           THEN [vq EXCEPT !.phase[c] = "failed",
                           !.log = @ \o <<(<<"end", c>>), (<<"end", c>>)>>]
           ELSE [vq EXCEPT !.phase[c] = "failed", !.log = Append(@, <<"end", c>>)]
  /\ UNCHANGED <<coreVars, server, check, emb, disc, auto>>

NextQueue ==
  \/ AddDocument
  \/ \E c \in 1..MaxAddCalls, ok \in BOOLEAN : CallbackStart(c, ok)
  \/ \E c \in 1..MaxAddCalls, ok \in BOOLEAN : CallbackEmbeddings(c, ok)
  \/ \E c \in 1..MaxAddCalls, ok, endOk \in BOOLEAN : CallbackInsert(c, ok, endOk)

SpecQueue == Init /\ [][NextQueue]_vars

\* ------------------------------------------- automatic change detection
\* the most startAutoDetection calls and the most check cycles looked at
MaxStarts == 3
MaxCycles == 3

\* stopAutoDetection(): only when checkInterval is set, the timer is cleared,
\* checkInterval becomes null and isRunning false
StopAuto(a) ==
  IF a.checkInterval # 0
  THEN [a EXCEPT !.timers = @ \ {a.checkInterval}, !.checkInterval = 0,
                 !.isRunning = FALSE, !.stopped = TRUE]
  ELSE [a EXCEPT !.stopped = TRUE]

\* startAutoDetection up to its await: it returns when isRunning, else it sets
\* isRunning and starts the initial check cycle
StartAutoDetection ==
  /\ auto.starts < MaxStarts
  /\ auto.cycles < MaxCycles
  /\ auto' = IF auto.isRunning
             THEN [auto EXCEPT !.starts = @ + 1, !.stopped = FALSE]
             ELSE [auto EXCEPT !.starts = @ + 1, !.stopped = FALSE,
                               !.isRunning = TRUE, !.initialCheck = TRUE,
                               !.cycles = @ + 1, !.cyclesAfterStop = 0]
  /\ UNCHANGED <<coreVars, server, check, emb, disc, vq>>

\* the initial runAutoCheck has settled (it swallows every error): setInterval
\* creates the timer and checkInterval holds it
InitialCheckDone ==
  /\ auto.initialCheck
  /\ auto' = [auto EXCEPT !.initialCheck = FALSE, !.created = @ + 1,
                          !.checkInterval = auto.created + 1,
                          !.timers = @ \cup {auto.created + 1}]
  /\ UNCHANGED <<coreVars, server, check, emb, disc, vq>>

\* an armed interval timer fires and its callback starts a check cycle
TimerFires(id) ==
  /\ id \in auto.timers
  /\ auto.cycles < MaxCycles
  /\ auto' = [auto EXCEPT !.cycles = @ + 1,
                          !.cyclesAfterStop = IF auto.stopped THEN @ + 1 ELSE @]
  /\ UNCHANGED <<coreVars, server, check, emb, disc, vq>>

StopAutoDetection ==
  /\ auto' = StopAuto(auto)
  /\ UNCHANGED <<coreVars, server, check, emb, disc, vq>>

NextAuto ==
  \/ StartAutoDetection
  \/ InitialCheckDone
  \/ \E id \in 1..MaxStarts : TimerFires(id)
  \/ StopAutoDetection

SpecAuto == Init /\ [][NextAuto]_vars

\* ------------------------------------------------ ChangeDetectionService
\* all variables but check and server
pipelineVars == <<now, ticks, useJsonCache, locks, pages, htmlFiles, remoteChanges, pc,
                  run, svc, queue, task, vectors, result, runsStarted, locksTable, emb,
                  disc, auto,
                 vq>>

\* the headers of the answer to axios.head
HeadHeaders(url, sendEtag, sendLastModified) ==
  [etag |-> IF sendEtag THEN ServerEtag[server[url]] ELSE NULL,
   lastModified |-> IF sendLastModified THEN ServerLastModified[server[url]] ELSE 0]

\* a decision that never looks at Last-Modified
AfterHeadIgnoringLastModified(cachedPage, headers) ==
  IF Truthy(cachedPage.etag) /\ Truthy(headers.etag) /\ cachedPage.etag = headers.etag
  THEN "etag"
  ELSE "get"

\* a decision that takes a record without validators for unchanged
AfterHeadTrustingMissingValidators(cachedPage, headers) ==
  IF Truthy(cachedPage.etag) /\ Truthy(headers.etag) /\ cachedPage.etag = headers.etag
  THEN "etag"
  ELSE IF ~Truthy(cachedPage.etag) /\ cachedPage.lastModified = 0
  THEN "last-modified"
  ELSE IF cachedPage.lastModified # 0 /\ headers.lastModified # 0
          /\ headers.lastModified <= cachedPage.lastModified
  THEN "last-modified"
  ELSE "get"

\* what checkUrlForChanges concludes from the HEAD answer: the validator that
\* shows the page unchanged, or "get" for the full GET
AfterHead(cachedPage, headers) ==
  IF Truthy(cachedPage.etag) /\ Truthy(headers.etag) /\ cachedPage.etag = headers.etag
  THEN "etag"
  ELSE IF cachedPage.lastModified # 0 /\ headers.lastModified # 0
          /\ headers.lastModified <= cachedPage.lastModified
  THEN "last-modified"
  ELSE "get"

\* the call returns { status, changed, method }
CheckResult(status, changed, method) ==
  [check EXCEPT !.st = "done", !.status = status, !.changed = changed,
                !.method = method]

\* checkUrlForChanges up to the HEAD request: initialize and cacheService.get
CheckStart(url, initOk) ==
  /\ check.st = "idle"
  /\ check' = IF ~initOk THEN [check EXCEPT !.st = "threw"]
              ELSE IF url \notin DOMAIN pages["disk"]
              THEN CheckResult("new", "true", "none")
              ELSE [check EXCEPT !.st = "head", !.cached = Some(pages["disk"][url])]
  /\ UNCHANGED <<pipelineVars, server>>

\* the answer to the HEAD request, or its failure
CheckHead(url, ok, sendEtag, sendLastModified) ==
  /\ check.st = "head"
  /\ LET headers == HeadHeaders(url, sendEtag, sendLastModified)
         by == AfterHead(check.cached[1], headers)
     IN  check' = IF ~ok THEN CheckResult("error", "null", "none")
                  ELSE IF by = "get"
                  THEN [check EXCEPT !.st = "get", !.head = Some(headers)]
                  ELSE [CheckResult("unchanged", "false", by)
                          EXCEPT !.head = Some(headers)]
  /\ UNCHANGED <<pipelineVars, server>>

\* the answer to the full GET, or its failure
CheckGet(url, ok) ==
  /\ check.st = "get"
  /\ LET contentHash == HashContent(server[url])
         c == [check EXCEPT !.gets = @ + 1]
     IN  check' = IF ~ok THEN [c EXCEPT !.st = "done", !.status = "error",
                                        !.changed = "null", !.method = "none"]
                  ELSE IF check.cached[1].contentHash = contentHash
                  THEN [c EXCEPT !.st = "done", !.status = "unchanged",
                                 !.changed = "false", !.method = "content-hash"]
                  ELSE [c EXCEPT !.st = "done", !.status = "changed",
                                 !.changed = "true", !.method = "none"]
  /\ UNCHANGED <<pipelineVars, server>>

\* the methods of CacheService
CacheServiceMethods ==
  {"initialize", "createSchema", "get", "set", "delete", "has", "getAllPages",
   "getPagesBySource", "getStats", "size", "clear", "getOutdatedPages", "bulkSet",
   "close", "queryPages", "getModifiedSince", "getPagesByStatus",
   "generateAnalyticsReport", "acquireLock", "releaseLock", "cleanupExpiredLocks"}

\* checkSourceForChanges(source): after initialize it calls
\* this.cacheService.getBySource, which throws a TypeError when the store has
\* no such method; else the pages of the source are checked, counted, and
\* stored again with lastChecked set to the time of the check
CheckSourceForChanges(source) ==
  /\ check.st = "idle"
  /\ check.sourceCall = "none"
  /\ LET urls == {u \in DOMAIN pages["disk"] : pages["disk"][u].source = source}
     IN  IF "getBySource" \notin CacheServiceMethods
         THEN /\ check' = [check EXCEPT !.sourceCall = "threw"]
              /\ UNCHANGED pages
         ELSE /\ check' = [check EXCEPT !.sourceCall = "returned",
                                        !.totalChecked = Cardinality(urls)]
              /\ pages' = [pages EXCEPT !["disk"] =
                           [u \in DOMAIN pages["disk"] |->
                              IF u \in urls
                              THEN SqliteRow([pages["disk"][u] EXCEPT !.lastChecked = DateNow])
                              ELSE pages["disk"][u]]]
  /\ UNCHANGED <<now, ticks, useJsonCache, locks, htmlFiles, remoteChanges, pc, run, svc,
                 queue, task, vectors, result, runsStarted, locksTable, emb, disc, auto,
                 vq, server>>

\* the remote changes while a check is under way
CheckRemoteChange(url) ==
  /\ check.st \in {"head", "get"}
  /\ server[url] \in DOMAIN NextBody
  /\ server' = [server EXCEPT ![url] = NextBody[server[url]]]
  /\ UNCHANGED <<pipelineVars, check>>

\* the records an earlier fetch of body can have left for a url: the validators
\* the server sent then, and the hash of the body
StoredRecords(body) ==
  {NewRecord(IF e THEN ServerEtag[body] ELSE NULL,
             IF m THEN ServerLastModified[body] ELSE 0,
             HashContent(body), SanitizeFilename("u1"), StartTime * 1000) :
     e \in BOOLEAN, m \in BOOLEAN}

\* a SQLite cache that is empty or holds one record of u1, and any remote body
InitCheck ==
  /\ now = StartTime /\ ticks = 0 /\ useJsonCache = FALSE /\ locks = {}
  /\ \E recs \in {[u \in {} |-> 0]}
               \cup {[u \in {"u1"} |-> SqliteRow(r)] :
                       r \in UNION {StoredRecords(b) : b \in Bodies}} :
       pages = [k \in Procs \cup {"disk"} |-> IF k = "disk" THEN recs
                                                ELSE [u \in {} |-> 0]]
  /\ htmlFiles = [f \in {} |-> 0]
  /\ \E b \in Bodies : server = [u \in Urls |-> b]
  /\ remoteChanges = 0
  /\ pc = [p \in Procs |-> "idle"]
  /\ run = [p \in Procs |-> NoRun]
  /\ svc = [p \in Procs |-> NewSvc]
  /\ queue = [p \in Procs |-> <<>>]
  /\ task = [p \in Procs |-> NoTasks]
  /\ vectors = [u \in {} |-> 0]
  /\ result = [p \in Procs |-> NoResult]
  /\ runsStarted = 0
  /\ check = NoCheck
  /\ locksTable = FALSE
  /\ emb = NewAIService
  /\ disc = NoDiscovery
  /\ auto = NoAuto
  /\ vq = NewVectorService

NextCheck ==
  \/ \E source \in {"k3s"} : CheckSourceForChanges(source)
  \/ \E ok \in BOOLEAN : CheckStart("u1", ok)
  \/ \E ok \in BOOLEAN, e \in BOOLEAN, m \in BOOLEAN : CheckHead("u1", ok, e, m)
  \/ \E ok \in BOOLEAN : CheckGet("u1", ok)
  \/ CheckRemoteChange("u1")

SpecCheck == InitCheck /\ [][NextCheck]_vars

\* time passes between two invocations
Wait(p, d) == pc[p] = "idle" /\ Tick(d)

\* non-forced CLI runs one after another with time passing between them; the
\* remote answers 200 or 304 and no I/O fails
NextClock ==
  \/ StartCli("p1", "k3s", FALSE, TRUE)
  \/ Discover("p1", [u \in Urls |-> 0])
  \/ \E u \in Urls : TaskStart("p1", u, TRUE)
  \/ \E u \in Urls, st \in {"200", "304"} : TaskHead("p1", u, st)
  \/ \E u \in Urls, st \in {"200", "304"}, e \in BOOLEAN, m \in BOOLEAN :
       TaskGet("p1", u, st, e, m, TRUE, TRUE, TRUE)
  \/ \E u \in Urls : TaskEmbed("p1", u, TRUE)
  \/ BatchSettle("p1")
  \/ Finish("p1", TRUE)
  \/ Exit("p1")
  \/ Wait("p1", 1)
  \/ RemoteChange("u1")

SpecClock == Init /\ [][NextClock]_vars

\* ------------------------------------------------------------ properties

\* p came through the CLI and holds the lock it acquired
Holds(p) == run[p].entry = "cli" /\ run[p].lockId # NoLock /\ Running(p)
\* the records process p reads
Records(p) == pages[Store(p)]

\* C1: two CLI runs for the same source are never inside
\* docService.indexDocumentation at the same time, however long the first lasts
C1_CliRunsNeverOverlap ==
  \A p, q \in Procs :
    (p # q /\ run[p].entry = "cli" /\ run[q].entry = "cli"
       /\ run[p].sourceId = run[q].sourceId)
    => ~(Running(p) /\ Running(q))

C3_LockBeforeFirstAccess ==
  \A p \in Procs :
    (pc[p] = "batch" /\ \E u \in DOMAIN task[p] : task[p][u].st # "start")
    => run[p].lockId # NoLock

\* C4: a CLI run for 'all' and a CLI run for one source never work on the same
\* document at the same time
C4_AllAndSingleNeverShareDocument ==
  \A p, q \in Procs :
    (p # q /\ Holds(p) /\ Holds(q) /\ run[p].sourceId = "all" /\ run[q].sourceId # "all")
    => DOMAIN task[p] \cap DOMAIN task[q] = {}

\* C5: when the CLI's indexDocumentation has returned or thrown after acquiring
\* the lock, no row acquired by it is left in the table
C5_LockReleasedAtEnd ==
  \A p \in Procs :
    (pc[p] = "done" /\ run[p].entry = "cli" /\ run[p].lockId # NoLock)
    => ~ \E r \in locks : r.acquired_by = run[p].lockId

\* C5 witness: a CLI run that held the lock has ended by throwing
C5_Witness ==
  \E p \in Procs :
    /\ pc[p] = "done" /\ run[p].entry = "cli" /\ run[p].lockId # NoLock
    /\ result[p].kind = "threw"

\* C6: every record with indexed = true has a contentHash and an htmlPath
C6_IndexedHasHashAndPath ==
  \A p \in Procs : \A u \in DOMAIN Records(p) :
    Records(p)[u].indexed
    => Truthy(Records(p)[u].contentHash) /\ Truthy(Records(p)[u].htmlPath)

\* C7: a record is indexed only when addDocument has stored the document, and
\* the hash of an indexed record is the hash of the text stored last: a record
\* fetchPageWithCache gave another hash is not indexed before the next
\* addDocument has succeeded
C7_IndexedOnlyAfterAddDocument ==
  \A p \in Procs : \A u \in DOMAIN Records(p) :
    Records(p)[u].indexed
    => u \in DOMAIN vectors /\ Records(p)[u].contentHash = HashContent(vectors[u])

\* C7 witness: a document whose content changed has been fetched, stored and
\* marked indexed again
C7_Witness ==
  \E u \in DOMAIN pages["disk"] :
    /\ pages["disk"][u].indexed /\ pages["disk"][u].contentHash = "h2"
    /\ u \in DOMAIN vectors /\ vectors[u] = "b2"
    /\ runsStarted = 2

\* C8: a non-forced run that starts with every document of its source indexed
\* at the hash of the remote body, and sees no remote change, returns
\* documentsIndexed = 0
C8_SecondRunIndexesNothing ==
  \A p \in Procs :
    (pc[p] = "done" /\ result[p].kind = "returned" /\ ~run[p].force
       /\ run[p].upToDate /\ run[p].serverAtStart = server /\ Solo(p))
    => result[p].documentsIndexed = 0

\* C9: in a non-forced run no url whose sitemap lastmod is strictly earlier than
\* the stored lastChecked of its record is left for the batches
C9_OlderLastmodFilteredOut ==
  \A p \in Procs : (pc[p] = "batch" /\ ~run[p].force) => run[p].older = {}

\* C10: when the processing of a resource has failed, the record it had before
\* is still in the cache, equal in every field
C10_FailureLeavesRecord ==
  \A p \in Procs : \A u \in DOMAIN task[p] :
    (task[p][u].st = "failed" /\ task[p][u].before # None /\ Solo(p))
    => CacheGet(p, u) = task[p][u].before

C12_SkipUpdatesLastChecked ==
  \A p \in Procs : \A u \in DOMAIN task[p] :
    task[p][u].st = "skipped"
    => /\ CacheGet(p, u) # None
       /\ CacheGet(p, u)[1].lastChecked = DateNow
       /\ CacheGet(p, u)[1] =
            [task[p][u].before[1] EXCEPT !.lastChecked = DateNow]

C14_DecisionOrder ==
  check.head # None
  => LET c == check.cached[1]
         h == check.head[1]
         etagSame == Truthy(c.etag) /\ c.etag = h.etag
         notNewer == c.lastModified # 0 /\ h.lastModified # 0
                     /\ h.lastModified <= c.lastModified
     IN  /\ check.gets > 0 => ~etagSame /\ ~notNewer
         /\ check.st = "get" => ~etagSame /\ ~notNewer
         /\ (check.st = "done" /\ check.status \in {"unchanged", "changed"})
            => IF etagSame
               THEN check.status = "unchanged" /\ check.method = "etag"
                    /\ check.gets = 0
               ELSE IF notNewer
               THEN check.status = "unchanged" /\ check.method = "last-modified"
                    /\ check.gets = 0
               ELSE /\ check.gets = 1
                    /\ check.status = "unchanged"
                       <=> c.contentHash = HashContent(server["u1"])
                    /\ check.changed = "true" <=> check.status = "changed"

\* C14 witness: a record whose ETag differs from the one the server sends was
\* decided unchanged by its Last-Modified
C14_Witness ==
  /\ check.st = "done" /\ check.method = "last-modified"
  /\ Truthy(check.cached[1].etag) /\ Truthy(check.head[1].etag)

\* C15: for a record with a contentHash and no validator, an answer of changed
\* or unchanged is only given after the full GET, and it is the outcome of the
\* hash comparison
C15_HashOnlyAlwaysFetches ==
  (check.cached # None /\ ~Truthy(check.cached[1].etag)
     /\ check.cached[1].lastModified = 0 /\ Truthy(check.cached[1].contentHash))
  => /\ check.st = "done" /\ check.status # "error" => check.gets = 1
     /\ check.status \in {"unchanged", "changed"}
        => /\ check.gets = 1
           /\ check.status = "unchanged"
              <=> check.cached[1].contentHash = HashContent(server["u1"])

\* C15 witness: a record without validators was found changed after the GET
C15_Witness ==
  /\ check.st = "done" /\ check.status = "changed" /\ check.gets = 1
  /\ ~Truthy(check.cached[1].etag) /\ check.cached[1].lastModified = 0
  /\ check.head # None /\ Truthy(check.head[1].etag)

\* C16: when the request for a resource whose record has a validator fails in
\* transport, the resource counts as unchanged: it is neither embedded again
\* nor failed
C16_TransportErrorMeansUnchanged ==
  \A p \in Procs : \A u \in DOMAIN task[p] :
    (task[p][u].resp # None /\ task[p][u].resp[1].status = "error"
       /\ task[p][u].before # None
       /\ (Truthy(task[p][u].before[1].etag)
             \/ task[p][u].before[1].lastModified # 0))
    => task[p][u].st \notin {"embed", "indexed", "failed"}

\* C17: a failing resource never ends the run: every url indexSource kept is
\* in the batch in flight or still queued until its batch has settled, none is
\* dropped before indexSource returns, and indexSource does not throw
C17_FailuresNeverAbort ==
  \A p \in Procs :
    /\ pc[p] = "batch" => run[p].pending = DOMAIN task[p] \cup SeqSet(queue[p])
    /\ pc[p] = "delay" => queue[p] # <<>> /\ run[p].pending = SeqSet(queue[p])
    /\ pc[p] \in {"saving", "done"} => run[p].pending = {} /\ queue[p] = <<>>
    /\ run[p].errors = 0
    /\ pc[p] = "done" => result[p].kind = "returned"

\* C17 witness: a document of the second batch has been indexed after a
\* document of the first batch failed
C17_Witness ==
  \E p \in Procs : \E u \in DOMAIN task[p] :
    /\ pc[p] = "batch" /\ task[p][u].st = "indexed"
    /\ \E v \in run[p].attempted \ run[p].embedded :
         v \notin DOMAIN task[p] /\ v \notin SeqSet(queue[p])

\* C18: every resource that failed makes the result's success false
C18_FailureMakesSuccessFalse ==
  \A p \in Procs :
    (pc[p] = "done" /\ result[p].kind = "returned"
       /\ run[p].attempted \ run[p].embedded # {})
    => ~result[p].success

\* C19: a run in which a cache-store operation has thrown does not report
\* success
C19_StoreFailureAborts ==
  \A p \in Procs :
    (pc[p] = "done" /\ run[p].storeFailed)
    => ~(result[p].kind = "returned" /\ result[p].success)

\* C20: the embedding provider is called at most three times for a text and
\* an embedding it returns is used: a task whose embedding was returned, on the
\* third call as on an earlier one, ends indexed with its record marked, and a
\* task is rejected by the embedding only after the third call has failed
C20_ThirdAttemptIndexes ==
  \A p \in Procs : \A u \in DOMAIN task[p] :
    LET t == task[p][u]
    IN  /\ t.calls <= EMBEDDING_RETRIES
        /\ t.hasEmbedding => t.st \in {"embed", "indexed"}
        /\ (t.st = "indexed")
           => /\ t.hasEmbedding
              /\ CacheGet(p, u) # None /\ CacheGet(p, u)[1].indexed
              /\ u \in run[p].embedded
        /\ (t.st = "failed" /\ t.calls > 0) => t.calls = EMBEDDING_RETRIES

\* C20 witness: the provider failed twice, the third call returned the
\* embedding, and the document is indexed
C20_Witness ==
  \E p \in Procs : \E u \in DOMAIN task[p] :
    /\ task[p][u].st = "indexed" /\ task[p][u].calls = 3
    /\ CacheGet(p, u)[1].indexed

\* C21: the retry loop calls the provider at most three times and sleeps
\* 500 ms and then 1000 ms between the calls, never after the last one; a
\* document whose indexing failed is one whose own third call failed
C21_FailureRecordedAgainstOneResource ==
  \A p \in Procs : \A u \in DOMAIN task[p] :
    LET t == task[p][u]
    IN  /\ t.calls <= 3
        /\ t.waits \in {<<>>, <<500>>, <<500, 1000>>}
        /\ Len(t.waits) = (IF t.hasEmbedding \/ t.calls = 3 THEN t.calls - 1
                           ELSE t.calls)
        /\ (t.st = "failed") => (t.calls = 3 /\ ~t.hasEmbedding)

\* C22: during indexSource at most BATCH_SIZE resources are in flight; the
\* batch in flight is cleared only when each of its resources has settled, and
\* a further batch of the same source starts only from the inter-batch delay,
\* during which nothing is in flight
C22_BatchesOneAtATime ==
  [][\A p \in Procs :
       /\ Cardinality(DOMAIN task'[p]) <= BATCH_SIZE
       /\ (pc'[p] = "delay") => (task'[p] = NoTasks)
       /\ (DOMAIN task'[p] # DOMAIN task[p])
          => \/ /\ task'[p] = NoTasks
                /\ \A u \in DOMAIN task[p] : Settled(task[p][u])
             \/ /\ task[p] = NoTasks
                /\ pc[p] \in {"discover", "delay"}
                /\ (pc[p] = "discover") => (run[p].pending = {})
                /\ (pc[p] = "delay")
                   => DOMAIN task'[p] \cap run[p].pending = DOMAIN task'[p]
     ]_vars

\* C22 witness: the second batch of a source is in flight after the first
\* batch of BATCH_SIZE resources has settled
C22_Witness ==
  \E p \in Procs :
    /\ pc[p] = "batch"
    /\ "u4" \in DOMAIN task[p]
    /\ Cardinality(DOMAIN task[p]) = 1
    /\ run[p].pending = {"u4"}

\* C23: once the timeout of a lock row has elapsed, that is from the second
\* acquired_at + timeout on, an acquireLock call for the row's name by any
\* process returns acquired: true and makes the caller the holder
C23_ExpiredLockCanBeTaken ==
  \A r \in locks : \A p \in Procs :
    (NowSec >= r.expires_at)
    => LET res == AcquireLock(locks, p, r.name, INDEX_LOCK_TIMEOUT)
       IN  /\ res.acquired
           /\ \E m \in res.locks : m.name = r.name /\ m.acquired_by = LockId(p)

\* C25: a refused acquireLock reports a remaining time above zero
C25_RefusalReportsPositiveTime ==
  \A p \in Procs : (result[p].kind = "refused") => (result[p].expiresIn > 0)

\* the lock ids in use: those of the rows and those the runs remember
LockIdsInUse == {r.acquired_by : r \in locks} \cup {run[p].lockId : p \in Procs}

\* C24: releaseLock deletes the row of the name exactly when the lock id is
\* the row's acquired_by, and otherwise returns false and leaves the table as
\* it is; so the row of a run that holds an unexpired lock is in the table
\* whatever the earlier holders of the name have released since
C24_ReleaseOnlyByHolder ==
  /\ \A r \in locks : \A id \in LockIdsInUse :
       LET res == ReleaseLock(locks, r.name, id)
       IN  IF id = r.acquired_by
           THEN res.released /\ res.locks = locks \ {r}
           ELSE ~res.released /\ res.locks = locks
  /\ \A p \in Procs :
       (Holds(p) /\ NowSec <= (run[p].lockId[2] \div 1000) + INDEX_LOCK_TIMEOUT)
       => \E r \in locks : /\ r.name = LockName(run[p].sourceId)
                           /\ r.acquired_by = run[p].lockId

\* C24 witness: a run whose lock had expired and was taken over has ended and
\* released with its old lock id, and the new holder still has its row
C24_Witness ==
  \E p \in Procs : \E q \in Procs \ {p} :
    /\ pc[p] = "done" /\ run[p].entry = "cli" /\ run[p].lockId # NoLock
    /\ result[p].kind = "returned"
    /\ Holds(q) /\ run[q].sourceId = run[p].sourceId
    /\ \E r \in locks : r.acquired_by = run[q].lockId

\* C26: the step in which the CLI's acquireLock is refused writes no page
\* record, no file and no vector, leaves the lock table as it is, starts no
\* batch and reports the time the existing row has left; after it the run is
\* over: it has discovered, fetched and embedded nothing and does no more
C26_RefusedRunDoesNothing ==
  [][\A p \in Procs :
       (result'[p].kind = "refused")
       => /\ pc'[p] = "done"
          /\ task'[p] = NoTasks /\ queue'[p] = <<>>
          /\ run'[p].lockId = NoLock
          /\ run'[p].attempted = {} /\ run'[p].embedded = {} /\ run'[p].pending = {}
          /\ IF result[p].kind = "refused"
             THEN run'[p] = run[p] /\ result'[p] = result[p]
             ELSE /\ pages' = pages /\ htmlFiles' = htmlFiles /\ vectors' = vectors
                  /\ locks' = locks
                  /\ \E r \in locks :
                       /\ r.name = LockName(run'[p].sourceId)
                       /\ result'[p].expiresIn = r.expires_at - NowSec
     ]_vars

\* C26 witness: a CLI run has been refused while another run holds the lock
C26_Witness ==
  \E p \in Procs : \E q \in Procs \ {p} :
    /\ result[p].kind = "refused" /\ pc[p] = "done"
    /\ Holds(q) /\ run[q].sourceId = run[p].sourceId

\* C27: a lock row is in the table only while the run that acquired it is in
\* progress: a process that a signal ends, or that exits, while it holds the
\* lock leaves no row behind
C27_NoLockWithoutLiveHolder ==
  \A r \in locks : \E p \in Procs : Holds(p) /\ run[p].lockId = r.acquired_by

\* C28: cleanupExpiredLocks deletes the rows whose expires_at has passed, which
\* are exactly the rows acquireLock would take over and none that it treats as
\* held; it returns the number of rows deleted, and a second call at the same
\* time deletes nothing and returns 0
C28_CleanupDeletesExpiredOnly ==
  LET res == CleanupExpiredLocks(locks)
      again == CleanupExpiredLocks(res.locks)
  IN  /\ res.locks \subseteq locks
      /\ \A r \in locks : (r \notin res.locks) <=> (r.expires_at < NowSec)
      /\ \A r \in locks : \A p \in Procs :
           (r \notin res.locks)
           <=> AcquireLock(locks, p, r.name, INDEX_LOCK_TIMEOUT).acquired
      /\ res.count = Cardinality(locks) - Cardinality(res.locks)
      /\ again.count = 0 /\ again.locks = res.locks

\* C28 witness: the clear-locks command has deleted an expired row
C28_Witness ==
  \E p \in Procs : result[p].kind = "cleaned" /\ result[p].cleaned = 1

\* C29: the clear-locks command on an initialised database ends with a count,
\* whether or not acquireLock has ever been called on that database
C29_CleanupNeverFails ==
  \A p \in Procs :
    (pc[p] = "done" /\ run[p].entry = "clear-locks") => result[p].kind = "cleaned"

\* C30: a CLI run that starts after clear-locks has run over the row a crashed
\* process left behind, while no live run holds that lock, is not refused
C30_RetryAfterClearLocksAcquires ==
  \A p \in Procs : (result[p].kind = "refused") => ~run[p].staleCleared

\* C31: when axios.get was answered 304 for a url with a cached record, the
\* record keeps the contentHash and the htmlPath it had, and the text handed
\* on is the cached HTML, also when the cached file could not be read
C31_NotModifiedKeepsRecord ==
  \A p \in Procs : \A u \in DOMAIN task[p] :
    LET t == task[p][u]
    IN  (t.resp # None /\ t.resp[1].status = "304" /\ t.cached # None)
        => /\ CacheGet(p, u) # None
           /\ CacheGet(p, u)[1].contentHash = t.cached[1].contentHash
           /\ CacheGet(p, u)[1].htmlPath = t.cached[1].htmlPath

\* C32: on one AIService the provider answers successfully at most once for
\* each text, whatever the interleaving of the calls; a cache entry comes from
\* a successful answer only, and hits + misses is the number of calls
C32_OneProviderAnswerPerText ==
  /\ \A t \in Texts : emb.answers[t] <= 1
  /\ \A t \in Texts : (emb.cache[t] # 0) => (emb.answers[t] > 0)
  /\ emb.hits + emb.misses = emb.started
  /\ \A c \in Callers :
       (emb.call[c].st = "returned") => (emb.call[c].ret = emb.cache[emb.call[c].text])

\* C33: discoverDocumentUrls always returns: the fallback urls of the source
\* with lastmod null when the sitemap request failed or no entry was
\* acceptable, and never more than 50 urls for suse or 30 for another source
C33_DiscoveryFallsBackAndIsLimited ==
  (disc.st = "returned")
  => LET kept == SelectSeq(disc.sitemap, Acceptable)
         fb == GetFallbackUrls(disc.source)
     IN  /\ Len(disc.out) <= (IF disc.source = "suse" THEN 50 ELSE 30)
         /\ (~disc.fetchOk \/ kept = <<>>)
            => /\ Len(disc.out) = Len(fb)
               /\ \A i \in 1..Len(fb) :
                    disc.out[i].url = fb[i] /\ disc.out[i].lastmod = 0
         /\ (disc.fetchOk /\ kept # <<>>)
            => \A i \in 1..Len(disc.out) : disc.out[i].url = kept[i].loc

\* C33 witness: a sitemap with more acceptable entries than the limit has
\* been cut to 30 urls
C33_Witness ==
  /\ disc.st = "returned" /\ disc.fetchOk /\ disc.source = "k3s"
  /\ Len(SelectSeq(disc.sitemap, Acceptable)) > 30
  /\ Len(disc.out) = 30

\* C34: CacheService.set on a url that has a record keeps the stored value of
\* every field the data does not provide: after fetchPageWithCache has stored
\* validators, hash and path for a url whose record was there, the record's
\* indexed and source are the stored ones
C34_SetKeepsMissingFields ==
  \A p \in Procs : \A u \in DOMAIN task[p] :
    LET t == task[p][u]
    IN  (~useJsonCache /\ t.st \in {"embed", "failed"} /\ t.cached # None
           /\ t.resp # None /\ CacheGet(p, u) # None)
        => /\ CacheGet(p, u)[1].indexed = t.cached[1].indexed
           /\ CacheGet(p, u)[1].source = t.cached[1].source

\* C35: a record read back with get carries every property stored with set,
\* with the SQLite store as with a Map: once indexSource has stored the record
\* with last_checked, the record read back has that last_checked
C35_GetReturnsWhatSetStored ==
  \A p \in Procs : \A u \in DOMAIN task[p] :
    (task[p][u].st = "indexed" /\ CacheGet(p, u) # None)
    => /\ CacheGet(p, u)[1].indexed
       /\ CacheGet(p, u)[1].last_checked # 0

\* C36: a checkSourceForChanges call on an initialised store returns its
\* result, in which totalChecked counts the pages of the source
C36_SourceCheckReturns ==
  /\ check.sourceCall # "threw"
  /\ (check.sourceCall = "returned")
     => check.totalChecked
        = Cardinality({u \in DOMAIN pages["disk"] : pages["disk"][u].source = "k3s"})

\* C37: a document whose own provider calls did not fail is not failed by
\* the failure of another document's addDocument: every failed addDocument
\* is one that called the provider itself
C37_FailureDoesNotSpread ==
  \A p \in Procs : \A u \in DOMAIN task[p] :
    (svc[p].queueRejected /\ task[p][u].st = "failed") => task[p][u].calls > 0

\* C38: the beginUpdate ... endUpdate sections of concurrent addDocument calls
\* never overlap and run in call order: a beginUpdate is the first index call
\* or follows an endUpdate of an earlier call, the next index call after it is
\* the endUpdate of the same call, and only a callback still running has its
\* section open (also when its embeddings or its inserts have failed)
C38_SectionsSerialized ==
  \A i \in 1..Len(vq.log) :
    (vq.log[i][1] = "begin")
    => /\ (i > 1) => (vq.log[i - 1][1] = "end" /\ vq.log[i - 1][2] < vq.log[i][2])
       /\ (i < Len(vq.log)) => (vq.log[i + 1] = <<"end", vq.log[i][2]>>)
       /\ (i = Len(vq.log)) => (vq.phase[vq.log[i][2]] \in {"begun", "embedded"})
\* two calls queued behind a running one: the first completes, the second
\* fails after its beginUpdate, the third is rejected
C38_Witness ==
  /\ Len(vq.phase) = 3
  /\ vq.phase = <<"done", "failed", "rejected">>
  /\ Len(vq.log) >= 4

\* C39: in every run of docService.indexDocumentation the page cache is
\* loaded before preFilterUrls makes the first cache read of a non-forced run,
\* and no source of a run is rejected because the read threw 'Cache not
\* initialized'
C39_CacheLoadedBeforeFirstRead ==
  \A p \in Procs :
    /\ (pc[p] = "discover" /\ ~run[p].force) => CacheReady(p)
    /\ run[p].errors = 0

\* C40: once stopAutoDetection has returned, at whatever point of
\* startAutoDetection it was called, isRunning is false, no interval timer is
\* armed and no automatic check cycle starts; and at no time is more than one
\* interval timer armed
C40_StopStopsAndOneTimer ==
  /\ auto.stopped => (~auto.isRunning /\ auto.timers = {} /\ auto.cyclesAfterStop = 0)
  /\ Cardinality(auto.timers) <= 1

====
